---------------------------- MODULE Spec2Model ----------------------------
(***************************************************************************)
(* Paper Trader (src/App.js): a simulated portfolio (cash, holdings, trade *)
(* history) traded against a watchlist of drifting mock prices.            *)
(*                                                                         *)
(* Numbers.  JavaScript numbers are IEEE-754 doubles: a quotient is        *)
(* rounded to the nearest representable number.  The model keeps amounts   *)
(* of money on a grid of 1/Scale (the integer n stands for n/Scale), sums  *)
(* and integer multiples are exact, and a quotient or a product with a     *)
(* decimal fraction is rounded to the nearest grid point.  Quantities are  *)
(* plain integers.  The non-numbers a computation of the program can       *)
(* produce (NaN, undefined, an inherited function object) are the values   *)
(* NaN, Undefined and Fn.                                                  *)
(*                                                                         *)
(* Text.  A text (a symbol, the content of an input field) is a sequence   *)
(* of one-character strings.                                               *)
(*                                                                         *)
(* Storage.  AsyncStorage holds one item under STORAGE_KEY; setItem calls  *)
(* settle one at a time in the order they were made, each with success or  *)
(* failure.  An item is described by the top-level keys of its object and  *)
(* their values.                                                           *)
(***************************************************************************)
EXTENDS Integers, Sequences, FiniteSets, TLC

VARIABLES
    state,          \* useState(initialState): cash, watchlist, holdings, history, settings
    ready,          \* useState(false): FALSE = Loading, TRUE = Ready
    initialState,   \* the module-level constant, built once with its random seed prices
    symbol,         \* the Symbol input field
    qty,            \* the Qty input field
    addSym,         \* the Add-symbol input field
    notice,         \* the Alert raised by the latest handler ("none" when it raised none)
    now,            \* the latest value Date.now() returned
    stored,         \* the item AsyncStorage holds under STORAGE_KEY
    pending,        \* the setItem calls of saveState not yet settled, oldest first
    intervals,      \* the intervals set by setInterval and not cleared: their delays in seconds
    mounted,        \* the component is mounted (FALSE once it has been disposed)
    pristine,       \* state === initialState: the state is the very object initialState
    steps,          \* handlers run so far
    handler,        \* the handler that ran last
    arg,            \* argument record of a direct call of driftPrice
    ret             \* its result

vars == <<state, ready, initialState, symbol, qty, addSym, notice, now, stored, pending,
          intervals, mounted, pristine, steps, handler, arg, ret>>

\* storage, timers and the life of the component
host == <<stored, pending, intervals, mounted, pristine>>

-----------------------------------------------------------------------------
(* Bounds of the model *)

\* grid points per unit of money
Scale == 100
\* Math.random() returns k/RandDenom
RandDenom == 2
\* how many of the DEFAULT_SYMBOLS the watchlist starts with
NumDefault == 1
\* handlers run in one behaviour
MaxSteps == 4
\* Date.now() + Math.random() lands on a grid of 1/IdDenom
IdDenom == 1

-----------------------------------------------------------------------------
(* JavaScript values and arithmetic *)

NaN == -2000000001
Undefined == -2000000002
Fn == -2000000003

IsNum(x) == x > -2000000000

\* ToNumber of a number, undefined or an object without a numeric value
ToNumber(x) == IF IsNum(x) THEN x ELSE NaN

Add(a, b) == IF IsNum(a) /\ IsNum(b) THEN a + b ELSE NaN
Sub(a, b) == IF IsNum(a) /\ IsNum(b) THEN a - b ELSE NaN
Mul(a, b) == IF IsNum(a) /\ IsNum(b) THEN a * b ELSE NaN

\* a / b for b > 0, rounded to the nearest grid point (ties upwards)
RoundDiv(a, b) == (2 * a + b) \div (2 * b)

Div(a, b) == IF IsNum(a) /\ IsNum(b) /\ b > 0 THEN RoundDiv(a, b) ELSE NaN

\* a > b and a < b: false as soon as one side is not a number
Gt(a, b) == IsNum(a) /\ IsNum(b) /\ a > b
Lt(a, b) == IsNum(a) /\ IsNum(b) /\ a < b

\* Boolean(x) for a number, NaN, undefined or an object
Truthy(x) == x # NaN /\ x # Undefined /\ x # 0

MathMax(a, b) == IF IsNum(a) /\ IsNum(b) THEN (IF a >= b THEN a ELSE b) ELSE NaN
MathMin(a, b) == IF IsNum(a) /\ IsNum(b) THEN (IF a <= b THEN a ELSE b) ELSE NaN
\* parseInt returns an integer or NaN, and Math.floor keeps both
MathFloor(n) == n

-----------------------------------------------------------------------------
(* Text *)

LowerCase == <<"a", "b", "c", "d", "e", "f", "g", "h", "i", "j", "k", "l", "m", "n", "o", "p", "q", "r", "s", "t", "u", "v", "w", "x", "y", "z">>
UpperCase == <<"A", "B", "C", "D", "E", "F", "G", "H", "I", "J", "K", "L", "M", "N", "O", "P", "Q", "R", "S", "T", "U", "V", "W", "X", "Y", "Z">>
Digits == <<"0", "1", "2", "3", "4", "5", "6", "7", "8", "9">>

IsSpace(c) == c = " "
IsDigit(c) == \E i \in 1..Len(Digits) : Digits[i] = c
DigitVal(c) == (CHOOSE i \in 1..Len(Digits) : Digits[i] = c) - 1

UpperChar(c) ==
    IF \E i \in 1..Len(LowerCase) : LowerCase[i] = c
    THEN UpperCase[CHOOSE i \in 1..Len(LowerCase) : LowerCase[i] = c]
    ELSE c

\* String.prototype.toUpperCase
ToUpperCase(t) == [i \in 1..Len(t) |-> UpperChar(t[i])]

RECURSIVE TrimStart(_)
TrimStart(t) == IF t # <<>> /\ IsSpace(Head(t)) THEN TrimStart(Tail(t)) ELSE t

RECURSIVE TrimEnd(_)
TrimEnd(t) ==
    IF t # <<>> /\ IsSpace(t[Len(t)]) THEN TrimEnd(SubSeq(t, 1, Len(t) - 1)) ELSE t

\* String.prototype.trim
Trim(t) == TrimEnd(TrimStart(t))

\* the value of the longest prefix of digits of t (acc: the digits read so far),
\* NaN when there is none
RECURSIVE ParseDigits(_, _, _)
ParseDigits(t, acc, any) ==
    IF t # <<>> /\ IsDigit(Head(t))
    THEN ParseDigits(Tail(t), 10 * acc + DigitVal(Head(t)), TRUE)
    ELSE IF any THEN acc ELSE NaN

\* parseInt(t, 10): leading white space, an optional sign, then digits; the rest
\* of the text is ignored
ParseInt(t) ==
    LET s == TrimStart(t)
        neg == s # <<>> /\ Head(s) = "-"
        signed == s # <<>> /\ Head(s) \in {"-", "+"}
        n == ParseDigits(IF signed THEN Tail(s) ELSE s, 0, FALSE)
    IN  IF neg THEN Sub(0, n) ELSE n

-----------------------------------------------------------------------------
(* Constants of the program and the texts a user types *)

DEFAULT_SYMBOLS ==
    << <<"A", "A", "P", "L">>,
       <<"M", "S", "F", "T">>,
       <<"T", "S", "L", "A">>,
       <<"G", "O", "O", "G", "L">>,
       <<"A", "M", "Z", "N">>,
       <<"N", "V", "D", "A">>,
       <<"R", "E", "L", "I", "A", "N", "C", "E", ".", "N", "S">>,
       <<"T", "C", "S", ".", "N", "S">>,
       <<"H", "D", "F", "C", "B", "A", "N", "K", ".", "N", "S">> >>

\* the defaults the model's watchlist starts with
WatchedDefaults == SubSeq(DEFAULT_SYMBOLS, 1, NumDefault)

\* names every plain object inherits from Object.prototype
ObjectPrototypeKeys ==
    { <<"t", "o", "S", "t", "r", "i", "n", "g">>,
      <<"v", "a", "l", "u", "e", "O", "f">>,
      <<"c", "o", "n", "s", "t", "r", "u", "c", "t", "o", "r">> }

\* what the user types into the Symbol field
SymbolTexts ==
    {WatchedDefaults[i] : i \in 1..NumDefault}
        \cup { <<"t", "o", "S", "t", "r", "i", "n", "g">> }

\* what the user types into the Qty field
QtyTexts == { <<>>, <<"x">>, <<"3", ".", "7">>, <<"1", "0", "0">> }

\* what the user types into the Add-symbol field
AddTexts == { <<" ", "i", "b", "m", " ">>, <<"a", "a", "p", "l">> }

-----------------------------------------------------------------------------
(* Pure functions of src/App.js *)

\* v = 0.015, in thousandths
DefaultVolatility == 15
\* settings.refreshSecs of the initial state
DefaultRefreshSecs == 8
\* cash of the initial state, in units of money
InitialCash == 10000

\* the values k/RandDenom of Math.random(); the largest stands for the draws that
\* round to the upper end of the range
RandomDraws == 0..RandDenom

clamp(n, lo, hi) == MathMin(MathMax(n, lo), hi)

\* driftPrice(p, v) with Math.random() = k/RandDenom and v = vn/1000:
\*   change = (random*2 - 1) * v;  np = p * (1 + change)
\*   clamp(np, Math.max(1, p * 0.85), p * 1.15)
driftPrice(p, vn, k) ==
    LET np == RoundDiv(p * (RandDenom * 1000 + (2 * k - RandDenom) * vn),
                       RandDenom * 1000)
    IN  clamp(np, MathMax(1 * Scale, RoundDiv(p * 85, 100)), RoundDiv(p * 115, 100))

\* 100 + Math.random() * 200 with Math.random() = k/RandDenom < 1
SeedPrice(k) == 100 * Scale + RoundDiv(k * 200 * Scale, RandDenom)
SeedDraws == 0..(RandDenom - 1)

\* priceMapFrom: a later watchlist entry overwrites an earlier one of the same symbol
priceMapFrom(watchlist) ==
    [s \in {watchlist[i].symbol : i \in 1..Len(watchlist)} |->
        LET last == CHOOSE i \in 1..Len(watchlist) :
                        /\ watchlist[i].symbol = s
                        /\ \A j \in (i + 1)..Len(watchlist) : watchlist[j].symbol # s
        IN  watchlist[last].price]

\* obj[key] is defined: an own property, or a member inherited from Object.prototype
HasProperty(obj, key) == key \in DOMAIN obj \/ key \in ObjectPrototypeKeys

\* priceMap[symbol] ?? 0
PriceOf(priceMap, key) ==
    IF key \in DOMAIN priceMap THEN priceMap[key]
    ELSE IF key \in ObjectPrototypeKeys THEN Fn
    ELSE 0

\* h.qty and h.avg for h = holdings[key]; an inherited function has neither
QtyOf(holdings, key) == IF key \in DOMAIN holdings THEN holdings[key].qty ELSE Undefined
AvgOf(holdings, key) == IF key \in DOMAIN holdings THEN holdings[key].avg ELSE Undefined

\* const q = Math.max(1, Math.floor(parseInt(qty || '1', 10)))
TradeQty(text) == MathMax(1, MathFloor(ParseInt(IF text = <<>> THEN <<"1">> ELSE text)))

\* the comparison with its operands exchanged
InsufficientCashSwapped(cost, cash) == Gt(cash, cost)

\* if (cost > cash)
InsufficientCash(cost, cash) == Gt(cost, cash)

\* the check without its comparison of quantities
InsufficientSharesMissingOnly(holdings, key, q) == ~HasProperty(holdings, key)

\* if (!h || h.qty < q)
InsufficientShares(holdings, key, q) ==
    ~HasProperty(holdings, key) \/ Lt(ToNumber(QtyOf(holdings, key)), q)

\* the plain mean of the old average and the new price
NewAvgUnweighted(hQty, hAvg, q, price, newQty) ==
    Div(Add(ToNumber(hAvg), ToNumber(price)), 2)

\* newQty ? (h.qty * h.avg + q * price) / newQty : price
NewAvg(hQty, hAvg, q, price, newQty) ==
    IF Truthy(newQty)
    THEN Div(Add(Mul(ToNumber(hQty), ToNumber(hAvg)), Mul(q, ToNumber(price))), newQty)
    ELSE price

\* the BUY branch of the updater of doTrade
Buy(prev, key, q, price) ==
    LET cost == Mul(q, ToNumber(price))
        own == HasProperty(prev.holdings, key)
        hQty == IF own THEN QtyOf(prev.holdings, key) ELSE 0
        hAvg == IF own THEN AvgOf(prev.holdings, key) ELSE 0
        newQty == Add(ToNumber(hQty), q)
        newAvg == NewAvg(hQty, hAvg, q, price, newQty)
    IN  IF InsufficientCash(cost, prev.cash)
        THEN [ok |-> FALSE, alert |-> "Not enough cash", holdings |-> prev.holdings,
              cash |-> prev.cash]
        ELSE [ok |-> TRUE, alert |-> "none",
              holdings |-> [s \in DOMAIN prev.holdings \cup {key} |->
                               IF s = key THEN [qty |-> newQty, avg |-> newAvg]
                               ELSE prev.holdings[s]],
              cash |-> Sub(prev.cash, cost)]

\* a position sold out that is kept with quantity 0
NeverSoldOut(remaining) == FALSE

\* if (remaining === 0) delete holdings[symbol]
SoldOut(remaining) == remaining = 0

\* the SELL branch of the updater of doTrade
Sell(prev, key, q, price) ==
    LET remaining == Sub(ToNumber(QtyOf(prev.holdings, key)), q)
    IN  IF InsufficientShares(prev.holdings, key, q)
        THEN [ok |-> FALSE, alert |-> "Not enough shares", holdings |-> prev.holdings,
              cash |-> prev.cash]
        ELSE [ok |-> TRUE, alert |-> "none",
              holdings |->
                  IF SoldOut(remaining)
                  THEN [s \in DOMAIN prev.holdings \ {key} |-> prev.holdings[s]]
                  ELSE [s \in DOMAIN prev.holdings \cup {key} |->
                           IF s = key
                           THEN [qty |-> remaining, avg |-> AvgOf(prev.holdings, key)]
                           ELSE prev.holdings[s]],
              cash |-> Add(prev.cash, Mul(q, ToNumber(price)))]

\* String(Date.now() + Math.random()): the sum of the two numbers, on its grid
TradeId(time, k) == time * IdDenom + k
IdDraws == 0..IdDenom

\* an updater that pushes the record to the end of history
TradeAppends(prev, side, key, q, price, time, k) ==
    LET r == IF side = "BUY" THEN Buy(prev, key, q, price) ELSE Sell(prev, key, q, price)
        rec == [id |-> TradeId(time, k), time |-> time, side |-> side, symbol |-> key,
                qty |-> q, price |-> price]
    IN  IF r.ok
        THEN [alert |-> r.alert,
              state |-> [prev EXCEPT !.holdings = r.holdings, !.cash = r.cash,
                                     !.history = Append(prev.history, rec)]]
        ELSE [alert |-> r.alert, state |-> prev]

\* the updater of doTrade: prev => next state, and the Alert it raises
Trade(prev, side, key, q, price, time, k) ==
    LET r == IF side = "BUY" THEN Buy(prev, key, q, price) ELSE Sell(prev, key, q, price)
        rec == [id |-> TradeId(time, k), time |-> time, side |-> side, symbol |-> key,
                qty |-> q, price |-> price]
    IN  IF r.ok
        THEN [alert |-> r.alert,
              state |-> [prev EXCEPT !.holdings = r.holdings, !.cash = r.cash,
                                     !.history = <<rec>> \o prev.history]]
        ELSE [alert |-> r.alert, state |-> prev]

\* prev.watchlist.map(w => ({ ...w, price: driftPrice(w.price) })), draw ks[i] for entry i
TickState(prev, ks) ==
    [prev EXCEPT !.watchlist =
        [i \in 1..Len(prev.watchlist) |->
            [prev.watchlist[i] EXCEPT !.price = driftPrice(@, DefaultVolatility, ks[i])]]]

-----------------------------------------------------------------------------
(* The stored item: JSON.stringify, JSON.parse and the merge of loadState *)

\* null, as JSON.stringify writes NaN
Null == -2000000004

\* the top-level keys of the application state
StateKeys == {"cash", "watchlist", "holdings", "history", "settings"}

\* what a blob holds in the place of a key it does not have
BlobFiller ==
    [cash |-> 0, watchlist |-> << >>, holdings |-> << >>, history |-> << >>,
     settings |-> [refreshSecs |-> 0]]

\* the item under STORAGE_KEY: kind "absent" (getItem returns null), "garbage" (a text
\* JSON.parse throws on) or "json" (the text of an object with the top-level keys
\* `keys`, whose values are value[k])
Blob(kind, keys, value) ==
    [kind |-> kind, keys |-> keys,
     value |-> [k \in StateKeys |-> IF k \in keys THEN value[k] ELSE BlobFiller[k]]]

Absent == Blob("absent", {}, BlobFiller)
Garbage == Blob("garbage", {}, BlobFiller)

\* JSON.stringify of a number-valued property: NaN is written as null; a property
\* whose value is undefined or a function is left out and reads back as undefined
JsonNumber(x) == IF x = NaN THEN Null ELSE IF x = Fn THEN Undefined ELSE x

\* the object JSON.stringify(s) describes
JsonOf(s) ==
    [cash |-> JsonNumber(s.cash),
     watchlist |-> [i \in 1..Len(s.watchlist) |->
                       [s.watchlist[i] EXCEPT !.price = JsonNumber(@)]],
     holdings |-> [k \in DOMAIN s.holdings |->
                      [qty |-> JsonNumber(s.holdings[k].qty),
                       avg |-> JsonNumber(s.holdings[k].avg)]],
     history |-> [i \in 1..Len(s.history) |->
                     [s.history[i] EXCEPT !.qty = JsonNumber(@), !.price = JsonNumber(@)]],
     settings |-> s.settings]

\* JSON.stringify(state)
JSONstringify(s) == Blob("json", StateKeys, JsonOf(s))

\* the spread with its two operands exchanged: the defaults overwrite the blob
MergeDefaultsLast(defaults, raw) == defaults

\* { ...initialState, ...parsed }
Merge(defaults, raw) ==
    [k \in StateKeys |-> IF k \in raw.keys THEN raw.value[k] ELSE defaults[k]]

\* a loadState whose catch does not cover JSON.parse
loadRejectsOnParse(raw, readFails) == ~readFails /\ raw.kind = "garbage"

\* the promise loadState() returns rejects: never, the try block holds both getItem
\* and JSON.parse and the catch returns a state
loadRejects(raw, readFails) == FALSE

-----------------------------------------------------------------------------
(* The component App *)

\* const initialState = {...}, the seed price of default i drawn as seeds[i]
InitialStateOf(seeds) ==
    [cash |-> InitialCash * Scale,
     watchlist |-> [i \in 1..NumDefault |->
                       [symbol |-> WatchedDefaults[i], price |-> SeedPrice(seeds[i])]],
     holdings |-> << >>,
     history |-> << >>,
     settings |-> [refreshSecs |-> DefaultRefreshSecs]]

\* loadState() when getItem fails (readFails) or returns the item raw
loadState(raw, readFails) ==
    IF readFails THEN initialState                  \* catch
    ELSE IF raw.kind = "absent" THEN initialState   \* if (!raw)
    ELSE IF raw.kind = "garbage" THEN initialState  \* JSON.parse throws: catch
    ELSE Merge(initialState, raw)

\* the items the store may hold when the app starts: none, a text that is not JSON,
\* an item of an older version with cash 150 and no settings, an item with a refresh
\* period of 5 seconds
StoredAtStart ==
    { Absent,
      Garbage,
      Blob("json", {"cash"}, [BlobFiller EXCEPT !.cash = 150 * Scale]),
      Blob("json", {"settings"},
           [BlobFiller EXCEPT !.settings = [refreshSecs |-> 5]]) }

\* a save effect that writes the state of the first render, not the current one
SaveEffectStale(isReady, s, queue) ==
    IF ~isReady THEN queue ELSE Append(queue, JSONstringify(initialState))

\* a save effect that skips the save while an earlier one is still under way
SaveEffectSkipsWhenBusy(isReady, s, queue) ==
    IF ~isReady \/ queue # << >> THEN queue ELSE Append(queue, JSONstringify(s))

\* the save effect without its guard
SaveEffectUnguarded(isReady, s, queue) == Append(queue, JSONstringify(s))

\* the save effect, run after a render with a new state or a new ready:
\*   if (!ready) return; saveState(state)
\* saveState calls JSON.stringify and setItem at once and awaits the result
SaveEffect(isReady, s, queue) ==
    IF ~isReady THEN queue ELSE Append(queue, JSONstringify(s))

\* (state.settings.refreshSecs || 8): the delay of the interval, in seconds
Delay(refreshSecs) == IF Truthy(refreshSecs) THEN refreshSecs ELSE DefaultRefreshSecs

\* the tick effect without its cleanup
NoCleanup(timers) == timers

\* the cleanup of the tick effect: clearInterval(id) of the interval it started
Cleanup(timers) == IF timers = << >> THEN timers ELSE SubSeq(timers, 1, Len(timers) - 1)

\* the tick effect, run after a render with a new ready or a new refreshSecs:
\*   if (!ready) return; tick(); setInterval(tick, delay)
StartInterval(isReady, refreshSecs, timers) ==
    IF ~isReady THEN timers ELSE Append(timers, Delay(refreshSecs))

\* the screen always shown, also while loading
RenderedAlways == mounted

\* the screen with its fields and buttons is shown: if (!ready) return <Loading>
Rendered == mounted /\ ready

\* the render after a handler: when it set a new state object (changed) the save
\* effect runs; refreshSecs is the same, so the tick effect does not
Rerender(changed) ==
    /\ pending' = IF changed THEN SaveEffect(ready, state', pending) ELSE pending
    /\ pristine' = IF changed THEN FALSE ELSE pristine
    /\ UNCHANGED <<stored, intervals, mounted>>

\* no direct call of driftPrice is under way
NoCall == [p |-> 0, v |-> 0, k |-> 0]
NoReturn == [done |-> FALSE, value |-> 0]

\* the component as first rendered
InitApp ==
    /\ \E seeds \in [1..NumDefault -> SeedDraws] : initialState = InitialStateOf(seeds)
    /\ state = initialState
    /\ ready = FALSE
    /\ symbol = IF NumDefault > 0 THEN WatchedDefaults[1] ELSE DEFAULT_SYMBOLS[1]
    /\ qty = <<"1">>
    /\ addSym = << >>
    /\ notice = "none"
    /\ now = 0
    /\ mounted = TRUE
    /\ pristine = TRUE
    \* the effects of the first render: loadState() is under way, no save, no interval
    /\ pending = SaveEffect(FALSE, initialState, << >>)
    /\ intervals = StartInterval(FALSE, initialState.settings.refreshSecs, << >>)
    /\ steps = 0
    /\ handler = "none"

Init ==
    /\ InitApp
    /\ stored \in StoredAtStart
    /\ arg = NoCall
    /\ ret = NoReturn

\* the startup effect: setState(await loadState()); setReady(true); the tick effect
\* then runs for the first time and calls tick() at once
Load ==
    /\ mounted
    /\ ~ready
    /\ \E readFails \in BOOLEAN :
           IF loadRejects(stored, readFails)
           THEN UNCHANGED <<state, ready, pending, intervals, pristine>>
           ELSE LET s == loadState(stored, readFails)
                IN  /\ \E ks \in [1..Len(s.watchlist) -> RandomDraws] :
                           state' = TickState(s, ks)
                    /\ ready' = TRUE
                    \* the save effect runs for s, and again for the state tick() set
                    /\ pending' = SaveEffect(TRUE, state', SaveEffect(TRUE, s, pending))
                    /\ intervals' = StartInterval(TRUE, s.settings.refreshSecs, intervals)
                    /\ pristine' = FALSE
    /\ notice' = "none"
    /\ UNCHANGED <<initialState, symbol, qty, addSym, now, stored, mounted, arg, ret>>

\* the interval callback tick
Tick ==
    /\ mounted
    /\ intervals # << >>
    /\ \E ks \in [1..Len(state.watchlist) -> RandomDraws] :
           state' = TickState(state, ks)
    /\ notice' = "none"
    /\ Rerender(TRUE)
    /\ UNCHANGED <<ready, initialState, symbol, qty, addSym, now, arg, ret>>

\* onChangeText of the three input fields
SetSymbol ==
    /\ Rendered
    /\ \E t \in SymbolTexts : symbol' = t
    /\ notice' = "none"
    /\ UNCHANGED <<state, ready, initialState, qty, addSym, now, arg, ret>>
    /\ UNCHANGED host

SetQty ==
    /\ Rendered
    /\ \E t \in QtyTexts : qty' = t
    /\ notice' = "none"
    /\ UNCHANGED <<state, ready, initialState, symbol, addSym, now, arg, ret>>
    /\ UNCHANGED host

SetAddSym ==
    /\ Rendered
    /\ \E t \in AddTexts : addSym' = t
    /\ notice' = "none"
    /\ UNCHANGED <<state, ready, initialState, symbol, qty, now, arg, ret>>
    /\ UNCHANGED host

\* q and price as doTrade reads them from the fields and the price map
PressedQty == TradeQty(qty)
PressedPrice == PriceOf(priceMapFrom(state.watchlist), symbol)

\* doTrade(side), pressed at time Date.now() = t with Math.random() = k/IdDenom
DoTradeAt(side, t, k) ==
    LET price == PressedPrice
        r == Trade(state, side, symbol, PressedQty, price, t, k)
    IN  /\ Rendered
        /\ IF ~Truthy(price)
           THEN /\ state' = state
                /\ notice' = "none"
           ELSE /\ state' = r.state
                /\ notice' = r.alert
        \* Date.now() is called for a trade that is recorded
        /\ now' = IF Truthy(price) /\ r.alert = "none" THEN t ELSE now
        \* a refused trade returns prev, the same object: no render, no save
        /\ Rerender(Truthy(price) /\ r.alert = "none")
        /\ UNCHANGED <<ready, initialState, symbol, qty, addSym, arg, ret>>

\* Date.now() returns the millisecond of the previous call or a later one
DoTrade(side) == \E t \in {now, now + 1} : \E k \in IdDraws : DoTradeAt(side, t, k)

\* a check that finds nothing
OnWatchlistNever(watchlist, s) == FALSE

\* state.watchlist.find(w => w.symbol === s)
OnWatchlist(watchlist, s) == \E i \in 1..Len(watchlist) : watchlist[i].symbol = s

\* addSymbolToWatch, the seed price of the new entry drawn as k
AddSymbolToWatch ==
    LET s == ToUpperCase(Trim(addSym))
    IN  /\ Rendered
        /\ notice' = "none"
        /\ IF s = << >> \/ OnWatchlist(state.watchlist, s)
           THEN /\ UNCHANGED <<state, addSym, symbol>>
                /\ Rerender(FALSE)
           ELSE /\ \E k \in SeedDraws :
                       state' = [state EXCEPT !.watchlist =
                                    <<[symbol |-> s, price |-> SeedPrice(k)]>> \o @]
                /\ addSym' = << >>
                /\ symbol' = s
                /\ Rerender(TRUE)
        /\ UNCHANGED <<ready, initialState, qty, now, arg, ret>>

\* removeSymbol(sym), pressed on the card of a watchlist entry
RemoveSymbol ==
    /\ Rendered
    /\ \E i \in 1..Len(state.watchlist) :
           state' = [state EXCEPT !.watchlist =
                        SelectSeq(@, LAMBDA w : w.symbol # state.watchlist[i].symbol)]
    /\ notice' = "none"
    /\ Rerender(TRUE)
    /\ UNCHANGED <<ready, initialState, symbol, qty, addSym, now, arg, ret>>

\* resetAll: the confirmation dialog, answered OK or Cancel
\* setState(initialState) sets no new object when the state is initialState already;
\* when it changes settings.refreshSecs the tick effect runs again: its cleanup, then
\* tick() and a new interval
ResetAll ==
    /\ Rendered
    /\ \E ok \in BOOLEAN :
           IF ~ok \/ pristine
           THEN /\ state' = state
                /\ Rerender(FALSE)
           ELSE IF state.settings.refreshSecs = initialState.settings.refreshSecs
           THEN /\ state' = initialState
                /\ pending' = SaveEffect(ready, initialState, pending)
                /\ pristine' = TRUE
                /\ UNCHANGED <<stored, intervals, mounted>>
           ELSE /\ \E ks \in [1..Len(initialState.watchlist) -> RandomDraws] :
                       state' = TickState(initialState, ks)
                /\ pending' = SaveEffect(ready, state', SaveEffect(ready, initialState, pending))
                /\ intervals' = StartInterval(ready, initialState.settings.refreshSecs,
                                              Cleanup(intervals))
                /\ pristine' = FALSE
                /\ UNCHANGED <<stored, mounted>>
    /\ notice' = "none"
    /\ UNCHANGED <<ready, initialState, symbol, qty, addSym, now, arg, ret>>

\* a setItem call settles: the item is written (ok) or the call fails and the catch
\* of saveState swallows the failure; calls settle in the order they were made
SaveSettlesWith(ok) ==
    /\ pending # << >>
    /\ stored' = IF ok THEN Head(pending) ELSE stored
    /\ pending' = Tail(pending)
    /\ UNCHANGED <<state, ready, initialState, symbol, qty, addSym, notice, now,
                   intervals, mounted, pristine, arg, ret>>

SaveSettles == \E ok \in BOOLEAN : SaveSettlesWith(ok)

\* the component is disposed: the cleanup of the tick effect runs
Unmount ==
    /\ mounted
    /\ mounted' = FALSE
    /\ intervals' = IF ready THEN Cleanup(intervals) ELSE intervals
    /\ UNCHANGED <<state, ready, initialState, symbol, qty, addSym, notice, now,
                   stored, pending, pristine, arg, ret>>

\* one more handler runs
Step(h) == steps < MaxSteps /\ steps' = steps + 1 /\ handler' = h

Next ==
    \/ Step("loadState") /\ Load
    \/ Step("tick") /\ Tick
    \/ Step("setSymbol") /\ SetSymbol
    \/ Step("setQty") /\ SetQty
    \/ Step("setAddSym") /\ SetAddSym
    \/ Step("BUY") /\ DoTrade("BUY")
    \/ Step("SELL") /\ DoTrade("SELL")
    \/ Step("addSymbolToWatch") /\ AddSymbolToWatch
    \/ Step("removeSymbol") /\ RemoveSymbol
    \/ Step("resetAll") /\ ResetAll
    \/ Step("setItem") /\ SaveSettles
    \/ Step("unmount") /\ Unmount

Spec == Init /\ [][Next]_vars

\* the promise of getItem settles, so the startup effect resumes after its await
SpecLive == Init /\ [][Next]_vars /\ WF_vars(Step("loadState") /\ Load)

-----------------------------------------------------------------------------
(* driftPrice called on its own: every price, volatility and random draw *)

\* prices from one grid point to the largest seed price drifted upwards
DriftPrices ==
    {1, Scale \div 2, (Scale * 86) \div 100, (Scale * 87) \div 100, Scale,
     100 * Scale, SeedPrice(RandDenom - 1), 345 * Scale}

\* volatilities in thousandths: none, the default, 15 %, 100 %, 300 %
DriftVolatilities == {0, DefaultVolatility, 150, 1000, 3000}

DriftCalls == [p : DriftPrices, v : DriftVolatilities, k : RandomDraws]

InitDrift ==
    /\ InitApp
    /\ stored = Absent
    /\ arg \in DriftCalls
    /\ ret = NoReturn

CallDrift ==
    /\ ~ret.done
    /\ ret' = [done |-> TRUE, value |-> driftPrice(arg.p, arg.v, arg.k)]
    /\ UNCHANGED <<state, ready, initialState, symbol, qty, addSym, notice, now, steps, handler, arg>>
    /\ UNCHANGED host

NextCall ==
    /\ ret.done
    /\ arg' \in DriftCalls
    /\ ret' = NoReturn
    /\ UNCHANGED <<state, ready, initialState, symbol, qty, addSym, notice, now, steps, handler>>
    /\ UNCHANGED host

NextDrift == CallDrift \/ NextCall

SpecDrift == InitDrift /\ [][NextDrift]_vars

-----------------------------------------------------------------------------
(* loadState called on its own: every item, with and without a failing read *)

\* a state an earlier run of the app saved
SavedState ==
    [cash |-> 150 * Scale,
     watchlist |-> <<[symbol |-> DEFAULT_SYMBOLS[2], price |-> 150 * Scale]>>,
     holdings |-> (DEFAULT_SYMBOLS[2] :> [qty |-> 2, avg |-> 140 * Scale]),
     history |-> <<[id |-> 7, time |-> 7, side |-> "BUY", symbol |-> DEFAULT_SYMBOLS[2],
                    qty |-> 2, price |-> 140 * Scale]>>,
     settings |-> [refreshSecs |-> 5]]

\* no item, a text that is not JSON, the text of an object cut short, and the text
\* of an object with any subset of the top-level keys
LoadItems ==
    {Absent, Garbage, Blob("garbage", {"cash"}, SavedState)}
        \cup {Blob("json", K, SavedState) : K \in SUBSET StateKeys}

LoadCalls == [raw : LoadItems, readFails : BOOLEAN]

InitLoad ==
    /\ InitApp
    /\ stored = Absent
    /\ arg \in LoadCalls
    /\ ret = NoReturn

CallLoad ==
    /\ ~ret.done
    /\ ret' = [done |-> TRUE, value |-> loadState(arg.raw, arg.readFails)]
    /\ UNCHANGED <<state, ready, initialState, symbol, qty, addSym, notice, now, steps, handler, arg>>
    /\ UNCHANGED host

NextCallLoad ==
    /\ ret.done
    /\ arg' \in LoadCalls
    /\ ret' = NoReturn
    /\ UNCHANGED <<state, ready, initialState, symbol, qty, addSym, notice, now, steps, handler>>
    /\ UNCHANGED host

NextLoad == CallLoad \/ NextCallLoad

SpecLoad == InitLoad /\ [][NextLoad]_vars

-----------------------------------------------------------------------------
(* Properties *)

\* this step is doTrade('BUY'), doTrade('SELL')
BuyPressed == handler' = "BUY" /\ DoTrade("BUY")
SellPressed == handler' = "SELL" /\ DoTrade("SELL")

\* the trade of this step was recorded
Recorded == Len(state'.history) = Len(state.history) + 1

\* the position of key before the trade, {qty: 0, avg: 0} when there is none
HeldQty(key) == IF key \in DOMAIN state.holdings THEN state.holdings[key].qty ELSE 0
HeldAvg(key) == IF key \in DOMAIN state.holdings THEN state.holdings[key].avg ELSE 0

RECURSIVE SumCost(_, _)
SumCost(holdings, keys) ==
    IF keys = {} THEN 0
    ELSE LET s == CHOOSE x \in keys : TRUE
         IN  Add(Mul(holdings[s].qty, ToNumber(holdings[s].avg)),
                 SumCost(holdings, keys \ {s}))

\* C1: in every reachable state cash is a number and cash >= 0.
C1_CashNonNegative == IsNum(state.cash) /\ state.cash >= 0

\* C2: every quantity held and every quantity recorded is an integer >= 1, whatever
\* the Qty field held when the trade was submitted.
C2_QuantitiesPositive ==
    /\ \A s \in DOMAIN state.holdings :
           IsNum(state.holdings[s].qty) /\ state.holdings[s].qty >= 1
    /\ \A i \in 1..Len(state.history) :
           IsNum(state.history[i].qty) /\ state.history[i].qty >= 1

\* C3: a buy whose cost q * price exceeds cash raises 'Not enough cash' and leaves
\* the application state unchanged.
C3_BuyRejected ==
    [][(BuyPressed /\ Gt(Mul(PressedQty, ToNumber(PressedPrice)), state.cash))
          => (state' = state /\ notice' = "Not enough cash")]_vars

\* a buy has just been refused for its cost
C3_Witness ==
    /\ handler = "BUY"
    /\ notice = "Not enough cash"
    /\ Gt(Mul(PressedQty, ToNumber(PressedPrice)), state.cash)

C5_BuyAverages ==
    [][(/\ BuyPressed
        /\ Recorded
        /\ IsNum(PressedQty)
        /\ IsNum(PressedPrice)
        /\ IsNum(HeldQty(symbol))
        /\ IsNum(HeldAvg(symbol)))
          => (/\ symbol \in DOMAIN state'.holdings
              /\ state'.holdings[symbol].qty = HeldQty(symbol) + PressedQty
              /\ state'.holdings[symbol].avg =
                     RoundDiv(HeldQty(symbol) * HeldAvg(symbol) + PressedQty * PressedPrice,
                              HeldQty(symbol) + PressedQty)
              /\ state'.cash = Sub(state.cash, PressedQty * PressedPrice))]_vars

\* the latest trade bought more of a symbol already held, at another price
C5_Witness ==
    /\ handler = "BUY"
    /\ state.history # << >>
    /\ LET r == Head(state.history)
       IN  /\ r.side = "BUY"
           /\ IsNum(r.qty)
           /\ IsNum(r.price)
           /\ r.symbol \in DOMAIN state.holdings
           /\ Gt(state.holdings[r.symbol].qty, r.qty)
           /\ IsNum(state.holdings[r.symbol].avg)
           /\ state.holdings[r.symbol].avg # r.price

C7_CashConservation ==
    [][(/\ BuyPressed
        /\ Recorded
        /\ \A i \in 1..Len(state'.history) :
               /\ state'.history[i].side = "BUY"
               /\ IsNum(state'.history[i].qty)
               /\ IsNum(state'.history[i].price))
          => Sub(state.cash, state'.cash) =
                 Sub(SumCost(state'.holdings, DOMAIN state'.holdings),
                     SumCost(state.holdings, DOMAIN state.holdings))]_vars

\* C8: a submitted trade that is not recorded leaves the application state unchanged
\* and raises a notice.
C8_NoSilentRejection ==
    [][((BuyPressed \/ SellPressed) /\ ~Recorded)
          => (state' = state /\ notice' # "none")]_vars

\* C9: the ids of the records of history are pairwise distinct.
C9_DistinctIds ==
    \A i, j \in 1..Len(state.history) :
        i # j => state.history[i].id # state.history[j].id

\* C10: for a price p > 0, any volatility and any draw, driftPrice returns a value
\* that is at least 1, above 0 and within [p * 0.85, p * 1.15].
C10_DriftBounds ==
    (ret.done /\ arg.p > 0)
      => /\ ret.value >= 1 * Scale
         /\ ret.value > 0
         /\ ret.value >= RoundDiv(arg.p * 85, 100)
         /\ ret.value <= RoundDiv(arg.p * 115, 100)

\* C11: ready, once TRUE, stays TRUE; and while ready is FALSE (Loading) no trade,
\* watchlist edit, reset or price tick changes the application state: only the
\* completion of the startup load does.
C11_Lifecycle ==
    [][/\ ready => ready'
       /\ (~ready /\ handler' # "loadState") => state' = state]_vars

\* Ready has outlived a handler and the disposal of the component
C11_Witness == ready /\ handler = "unmount" /\ steps > 2

\* C12: every completion of the startup load enters Ready, whatever the read gave
\* (an item, no item, a failure, a text that is not JSON), and a mounted component
\* in Loading eventually is Ready unless it is disposed first.
C12_LoadReachesReady ==
    /\ [][handler' = "loadState" => ready']_vars
    /\ (mounted /\ ~ready) ~> (ready \/ ~mounted)

\* Ready was entered from a stored text that is not JSON
C12_Witness == ready /\ handler = "loadState" /\ stored = Garbage

\* C13: loadState returns the default initial state with each top-level key the
\* stored object has replaced by the object's value; no item, a failed read and a
\* text that is not JSON count as an object without keys and give exactly the
\* default initial state; without the key settings, settings.refreshSecs is 8.
C13_LoadMerges ==
    ret.done =>
        LET present(k) ==
                ~arg.readFails /\ arg.raw.kind = "json" /\ k \in arg.raw.keys
        IN  /\ DOMAIN ret.value = StateKeys
            /\ \A k \in StateKeys :
                   ret.value[k] = IF present(k) THEN arg.raw.value[k] ELSE initialState[k]
            /\ (\A k \in StateKeys : ~present(k)) => ret.value = initialState
            /\ ~present("settings") => ret.value.settings.refreshSecs = 8

\* an object with cash and history only was loaded: its cash, the default settings
C13_Witness ==
    /\ ret.done
    /\ ~arg.readFails
    /\ arg.raw.kind = "json"
    /\ arg.raw.keys = {"cash", "history"}
    /\ ret.value.cash = 150 * Scale
    /\ ret.value.history # << >>
    /\ ret.value.watchlist = initialState.watchlist
    /\ ret.value.settings.refreshSecs = 8

\* C14: once Ready, every step that changes the application state ends with a new
\* saveState call whose payload is the serialization of the resulting state; a
\* setItem that fails changes neither the in-memory state nor the stored item and
\* is not called again.
C14_SavedAfterChange ==
    [][/\ (ready' /\ state' # state) =>
              /\ Len(pending') > Len(pending)
              /\ pending'[Len(pending')] = JSONstringify(state')
       /\ (handler' = "setItem" /\ SaveSettlesWith(FALSE)) =>
              /\ UNCHANGED <<state, ready, stored>>
              /\ pending' = Tail(pending)]_vars

\* after a recorded buy the two saves of the startup failed; the save of the buy is
\* the one still under way
C14_Witness ==
    /\ handler = "setItem"
    /\ stored = Garbage
    /\ state.history # << >>
    /\ pending = <<JSONstringify(state)>>

\* C15: in every reachable state at most one interval is active, also right after
\* settings.refreshSecs has changed (the old interval is cleared before the new one
\* is set), and none is active once the component is disposed.
C15_OneTimer ==
    /\ Len(intervals) <= 1
    /\ ~mounted => intervals = << >>

\* a reset has changed refreshSecs from the stored 5 to the default: the interval of
\* 5 seconds is gone and the one of 8 seconds runs
C15_Witness ==
    /\ handler = "resetAll"
    /\ stored.kind = "json"
    /\ "settings" \in stored.keys
    /\ stored.value.settings.refreshSecs # DefaultRefreshSecs
    /\ state.settings.refreshSecs = DefaultRefreshSecs
    /\ intervals = <<DefaultRefreshSecs>>

\* the symbols of a watchlist
SymbolsOf(watchlist) == {watchlist[i].symbol : i \in 1..Len(watchlist)}

\* C16: addSymbolToWatch leaves the watchlist as it is when the trimmed, uppercased
\* text of the field is empty or the symbol of an entry, and otherwise puts exactly
\* one new entry with that symbol in front of the others; from the default watchlist
\* on, the symbols of the watchlist stay pairwise distinct.
C16_AddSymbol ==
    /\ [][handler' = "addSymbolToWatch" =>
              LET s == ToUpperCase(Trim(addSym))
              IN  IF s = << >> \/ s \in SymbolsOf(state.watchlist)
                  THEN state'.watchlist = state.watchlist
                  ELSE /\ Len(state'.watchlist) = Len(state.watchlist) + 1
                       /\ Head(state'.watchlist).symbol = s
                       /\ Tail(state'.watchlist) = state.watchlist]_vars
    /\ [](\A i, j \in 1..Len(state.watchlist) :
              i # j => state.watchlist[i].symbol # state.watchlist[j].symbol)

\* the text " ibm " was added as IBM in front of the defaults
C16_Witness ==
    /\ handler = "addSymbolToWatch"
    /\ Len(state.watchlist) = NumDefault + 1
    /\ Head(state.watchlist).symbol = <<"I", "B", "M">>
    /\ SymbolsOf(Tail(state.watchlist)) = SymbolsOf(initialState.watchlist)

\* C17: a doTrade step either is refused and leaves history as it is, or puts
\* exactly one record with its side, symbol, quantity and price at the head of
\* history and keeps the earlier records behind it, unchanged and in order (a step
\* that changes the state is never without a record); apart from a confirmed reset,
\* no other step changes history (the startup load fills the empty history).
C17_HistoryAppendOnly ==
    [][IF handler' \in {"BUY", "SELL"}
       THEN \/ state' = state
            \/ /\ state'.history # << >>
               /\ Tail(state'.history) = state.history
               /\ Head(state'.history).side = handler'
               /\ Head(state'.history).symbol = symbol
               /\ Head(state'.history).qty = PressedQty
               /\ Head(state'.history).price = PressedPrice
       ELSE IF handler' = "resetAll"
       THEN state'.history \in {state.history, << >>}
       ELSE IF handler' = "loadState"
       THEN state.history = << >>
       ELSE state'.history = state.history]_vars

\* a sell was recorded in front of the buy before it
C17_Witness ==
    /\ handler = "SELL"
    /\ Len(state.history) = 2
    /\ state.history[1].side = "SELL"
    /\ state.history[2].side = "BUY"

\* C18: while ready is FALSE no saveState call is under way and the stored item is
\* not written; the first saveState call made when the load completes carries the
\* state the load returned (the stored object merged over the defaults, or the
\* defaults when the read failed or gave no object), before any tick or handler has
\* changed it.
C18_NoSaveWhileLoading ==
    /\ [](~ready => pending = << >>)
    /\ [][~ready' => stored' = stored]_vars
    /\ [][(handler' = "loadState" /\ ready') =>
              /\ pending' # << >>
              /\ \/ pending'[1] = JSONstringify(initialState)
                 \/ /\ stored.kind = "json"
                    /\ pending'[1] =
                           JSONstringify([k \in StateKeys |->
                               IF k \in stored.keys THEN stored.value[k]
                               ELSE initialState[k]])]_vars

\* the load of the item with cash 150 has completed: the first save under way
\* carries that cash and the default watchlist as it was before the first tick
C18_Witness ==
    /\ handler = "loadState"
    /\ ready
    /\ "cash" \in stored.keys
    /\ Len(pending) = 2
    /\ pending[1].value.cash = 150 * Scale
    /\ pending[1].value.watchlist = initialState.watchlist
    /\ pending[2] = JSONstringify(state)

RECURSIVE SumQty(_, _, _)
SumQty(history, side, key) ==
    IF history = << >> THEN 0
    ELSE LET r == Head(history)
         IN  IF r.side = side /\ r.symbol = key
             THEN Add(ToNumber(r.qty), SumQty(Tail(history), side, key))
             ELSE SumQty(Tail(history), side, key)

\* bought minus sold
NetQty(history, key) == Sub(SumQty(history, "BUY", key), SumQty(history, "SELL", key))

\* C20: for every symbol held or traded, the quantity held is the total quantity of
\* its BUY records minus that of its SELL records in history, and the symbol has no
\* entry in holdings exactly when that difference is zero.
C20_LedgerConsistent ==
    \A s \in DOMAIN state.holdings \cup {state.history[i].symbol : i \in 1..Len(state.history)} :
        LET net == NetQty(state.history, s)
        IN  /\ IsNum(net)
            /\ s \in DOMAIN state.holdings =>
                   (IsNum(state.holdings[s].qty) /\ state.holdings[s].qty = net)
            /\ s \notin DOMAIN state.holdings <=> net = 0

=============================================================================
